---- MODULE Spec2Model ----
(***************************************************************************)
(* Mackie Control Universal VU meters of Control-Surface:                  *)
(*   src/src/MIDI_Inputs/MCU/NewVU.hpp                 (VUState, VUMatcher, *)
(*                                  NewVU, Bankable::VUMatcher, ::NewVU)    *)
(*   src/src/MIDI_Inputs/MIDIInputElementMatchers.hpp  (the MIDI matchers)  *)
(*                                                                         *)
(* A sketch holds one VU element, either MCU::NewVU or                      *)
(* MCU::Bankable::NewVU<BankSize>.  The main loop delivers channel pressure *)
(* messages to it, calls update() on it, and the application calls reset()  *)
(* and clearDirty(); millis() advances in between.                          *)
(***************************************************************************)
EXTENDS Integers, Sequences, FiniteSets, TLC

VARIABLES
    sketch,     \* what the sketch instantiates: "NewVU" | "Bankable" | "Matcher" |
                \* "PlainMatcher" | "Helpers" | "VUState" | "VUMatcher" |
                \* "BankableVUMatcher"
    vu,         \* the MCU::NewVU object: state, dirty, decayTimer
    bvu,        \* the MCU::Bankable::NewVU object: states, dirty, decayTimer
    selection,  \* Bank<BankSize>::getSelection(), written by the bank selector
    last,       \* history: what the call that produced this state returned, for
                \* the calls "message", "update" and "reset"; "other" for the
                \* other calls
    seen,       \* history: NewVU::state at the most recent clearDirty()
    sinceValue, \* history: time since the last ValueChanged message of NewVU, up to
                \* DecayTime; -1 if there was none
    script,     \* history: progress through the messages 0x5, 0xE, 0xF from a fresh NewVU
    sinceSame,  \* history: time since the most recent message that sent the NewVU
                \* the level it had, up to DecayTime; -1 if there was none or a
                \* message has changed the value since
    mt,         \* a matcher under test: config, address, length
    res         \* the function the sketch has called, its input and its result

vars ==
    <<sketch, vu, bvu, selection, last, seen, sinceValue, script, sinceSame, mt, res>>

----------------------------------------------------------------------------
(* Bounds of the model *)

\* the non-zero decay time of the element, in clock steps
DecayTime == 2
\* millis() - decayTimer.previous is followed up to this value
MaxElapsed == 3
\* the runs that record their history send the levels 0..MaxLevel
MaxLevel == 5
\* the matchers under test have 1..MaxBanks banks of 1..MaxTracksPerBank tracks
MaxBanks == 3
MaxTracksPerBank == 4
\* the range matchers under test have the lengths 1..MaxLength
MaxLength == 3
\* the messages to the matchers have data1 in 0..MaxAddress, a channel in
\* 0..MaxChannel and a cable in 0..MaxCable
MaxAddress == 12
MaxChannel == 3
\* the address fields of the helpers' calls are at most this far from 0 or 127
MaxOffset == 2
MaxCable == 1

(* Program constants *)

NothingChanged == 0
ValueChanged == 1
OverloadChanged == 2
Hold == 0
BankSize == 2

Nibbles == 0..15
Banks == 0..(BankSize - 1)

----------------------------------------------------------------------------
(* struct VUState *)

\* VUState(uint8_t value = 0, bool overload = false)
VUState(value, overload) == [value |-> value % 16, overload |-> overload]

\* update() that takes 0xD for a level
VUState_update_noD(s, data) ==
    CASE data = 15 ->
            [state |-> [s EXCEPT !.overload = FALSE],
             changed |-> IF s.overload THEN OverloadChanged ELSE NothingChanged]
      [] data = 14 ->
            [state |-> [s EXCEPT !.overload = TRUE],
             changed |-> IF ~s.overload THEN OverloadChanged ELSE NothingChanged]
      [] OTHER ->
            [state |-> [s EXCEPT !.value = data % 16],
             changed |-> IF s.value # data THEN ValueChanged ELSE NothingChanged]

\* update() whose levels clear the overload flag
VUState_update_clearsOverload(s, data) ==
    CASE data = 15 ->
            [state |-> [s EXCEPT !.overload = FALSE],
             changed |-> IF s.overload THEN OverloadChanged ELSE NothingChanged]
      [] data = 14 ->
            [state |-> [s EXCEPT !.overload = TRUE],
             changed |-> IF ~s.overload THEN OverloadChanged ELSE NothingChanged]
      [] data = 13 ->
            [state |-> s, changed |-> NothingChanged]
      [] OTHER ->
            [state |-> VUState(data, FALSE),
             changed |-> IF s.value # data THEN ValueChanged ELSE NothingChanged]

\* update() that reports every 0xE and 0xF as a change of the overload flag
VUState_update_alwaysReports(s, data) ==
    CASE data = 15 ->
            [state |-> [s EXCEPT !.overload = FALSE], changed |-> OverloadChanged]
      [] data = 14 ->
            [state |-> [s EXCEPT !.overload = TRUE], changed |-> OverloadChanged]
      [] data = 13 ->
            [state |-> s, changed |-> NothingChanged]
      [] OTHER ->
            [state |-> [s EXCEPT !.value = data % 16],
             changed |-> IF s.value # data THEN ValueChanged ELSE NothingChanged]

\* update() that sets the overload flag on 0xD
VUState_update_overloadOnD(s, data) ==
    CASE data = 15 ->
            [state |-> [s EXCEPT !.overload = FALSE],
             changed |-> IF s.overload THEN OverloadChanged ELSE NothingChanged]
      [] data \in {13, 14} ->
            [state |-> [s EXCEPT !.overload = TRUE],
             changed |-> IF ~s.overload THEN OverloadChanged ELSE NothingChanged]
      [] OTHER ->
            [state |-> [s EXCEPT !.value = data % 16],
             changed |-> IF s.value # data THEN ValueChanged ELSE NothingChanged]

\* Changed VUState::update(uint8_t data): the new state and the returned code
VUState_update(s, data) ==
    CASE data = 15 ->
            [state |-> [s EXCEPT !.overload = FALSE],
             changed |-> IF s.overload THEN OverloadChanged ELSE NothingChanged]
      [] data = 14 ->
            [state |-> [s EXCEPT !.overload = TRUE],
             changed |-> IF ~s.overload THEN OverloadChanged ELSE NothingChanged]
      [] data = 13 ->
            [state |-> s, changed |-> NothingChanged]
      [] OTHER ->
            [state |-> [s EXCEPT !.value = data % 16],
             changed |-> IF s.value # data THEN ValueChanged ELSE NothingChanged]

\* decay() that stops at the lowest segment
VUState_decay_floorOne(s) ==
    IF s.value <= 1
        THEN [state |-> s, ret |-> FALSE]
        ELSE [state |-> [s EXCEPT !.value = @ - 1], ret |-> TRUE]

\* bool VUState::decay(): the new state and the returned flag
VUState_decay(s) ==
    IF s.value = 0
        THEN [state |-> s, ret |-> FALSE]
        ELSE [state |-> [s EXCEPT !.value = @ - 1], ret |-> TRUE]

----------------------------------------------------------------------------
(* AH::Timer<millis>, kept as interval and elapsed = millis() - previous *)

Timer(interval, elapsed) == [interval |-> interval, elapsed |-> elapsed]

\* Timer::operator bool: at least one interval has elapsed
Timer_elapsed(t) == t.elapsed >= t.interval

\* the timer after operator bool returned true: a new period has begun, either
\* one interval after the previous one or at the time of the call
Timer_consumed(t) == {[t EXCEPT !.elapsed = @ - t.interval], [t EXCEPT !.elapsed = 0]}

\* Timer::beginNextPeriod()
Timer_beginNextPeriod(t) == [t EXCEPT !.elapsed = 0]

----------------------------------------------------------------------------
(* MIDI addresses and messages *)

MIDIAddress(address, channel, cableNumber) ==
    [valid |-> TRUE, address |-> address, channel |-> channel,
     cableNumber |-> cableNumber]

\* MIDIAddress(): the invalid address, all fields zero
MIDIAddress_invalid ==
    [valid |-> FALSE, address |-> 0, channel |-> 0, cableNumber |-> 0]

\* MIDIAddress::matchSingle(toMatch, base)
MIDIAddress_matchSingle(toMatch, base) ==
    /\ toMatch.valid
    /\ base.valid
    /\ toMatch.address = base.address
    /\ toMatch.channel = base.channel
    /\ toMatch.cableNumber = base.cableNumber

\* MIDIAddress::matchAddressInRange(toMatch, base, length)
MIDIAddress_matchAddressInRange(toMatch, base, length) ==
    /\ toMatch.valid
    /\ base.valid
    /\ base.address <= toMatch.address
    /\ toMatch.address < base.address + length
    /\ toMatch.channel = base.channel
    /\ toMatch.cableNumber = base.cableNumber

\* ChannelMessageMatcher
ChannelMessage(type, channel, data1, data2, cable) ==
    [type |-> type, channel |-> channel, data1 |-> data1, data2 |-> data2,
     cable |-> cable]

\* channel pressure with data byte 0hhh llll
VUMessage(track, data) == ChannelMessage("CHANNEL_PRESSURE", 0, track * 16 + data, 0, 0)

----------------------------------------------------------------------------
(* Arithmetic of the C++ types *)

\* conversion of an int to uint8_t
U8(x) == x % 256

\* int division of C++, which truncates toward zero
CDiv(a, b) == IF a >= 0 THEN a \div b ELSE -((-a) \div b)

----------------------------------------------------------------------------
(* namespace BankableMIDIMatcherHelpers.  A bank is [size, tracksPerBank],  *)
(* a bank configuration is [bank, type].                                    *)

Bank(size, tracksPerBank) == [size |-> size, tracksPerBank |-> tracksPerBank]
BankConfig(bank, type) == [bank |-> bank, type |-> type]

\* getBankIndex() that does not divide by the tracks per bank
getBankIndex_noDivide(target, base, config) ==
    CASE config.type = "CHANGE_ADDRESS" -> U8(target.address - base.address)
      [] config.type = "CHANGE_CHANNEL" -> U8(target.channel - base.channel)
      [] config.type = "CHANGE_CABLENB" -> U8(target.cableNumber - base.cableNumber)
      [] OTHER -> 0

\* uint8_t getBankIndex(MIDIAddress target, MIDIAddress base, config)
getBankIndex(target, base, config) ==
    LET nt == config.bank.tracksPerBank IN
    CASE config.type = "CHANGE_ADDRESS" ->
            U8(CDiv(target.address - base.address, nt))
      [] config.type = "CHANGE_CHANNEL" ->
            U8(CDiv(target.channel - base.channel, nt))
      [] config.type = "CHANGE_CABLENB" ->
            U8(CDiv(target.cableNumber - base.cableNumber, nt))
      [] OTHER -> 0

\* matchBankable() that accepts every offset within the banks
matchBankable_anyOffset(toMatch, base, bank) ==
    LET diff == U8(toMatch - base) IN
    /\ toMatch >= base
    /\ diff < bank.size * bank.tracksPerBank

\* bool matchBankable(uint8_t toMatch, uint8_t base, const Bank<BankSize> &bank)
matchBankable(toMatch, base, bank) ==
    LET diff == U8(toMatch - base) IN
    /\ toMatch >= base
    /\ diff < bank.size * bank.tracksPerBank
    /\ diff % bank.tracksPerBank = 0

\* matchBankable() that does not ask whether the addresses are valid
matchBankableAddress_noValid(toMatch, base, config) ==
    CASE config.type = "CHANGE_ADDRESS" ->
            /\ toMatch.channel = base.channel
            /\ toMatch.cableNumber = base.cableNumber
            /\ matchBankable(toMatch.address, base.address, config.bank)
      [] config.type = "CHANGE_CHANNEL" ->
            /\ toMatch.address = base.address
            /\ toMatch.cableNumber = base.cableNumber
            /\ matchBankable(toMatch.channel, base.channel, config.bank)
      [] config.type = "CHANGE_CABLENB" ->
            /\ toMatch.address = base.address
            /\ toMatch.channel = base.channel
            /\ matchBankable(toMatch.cableNumber, base.cableNumber, config.bank)
      [] OTHER -> FALSE

\* bool matchBankable(MIDIAddress toMatch, MIDIAddress base, config)
matchBankableAddress(toMatch, base, config) ==
    IF ~toMatch.valid \/ ~base.valid THEN FALSE
    ELSE CASE config.type = "CHANGE_ADDRESS" ->
                /\ toMatch.channel = base.channel
                /\ toMatch.cableNumber = base.cableNumber
                /\ matchBankable(toMatch.address, base.address, config.bank)
           [] config.type = "CHANGE_CHANNEL" ->
                /\ toMatch.address = base.address
                /\ toMatch.cableNumber = base.cableNumber
                /\ matchBankable(toMatch.channel, base.channel, config.bank)
           [] config.type = "CHANGE_CABLENB" ->
                /\ toMatch.address = base.address
                /\ toMatch.channel = base.channel
                /\ matchBankable(toMatch.cableNumber, base.cableNumber, config.bank)
           [] OTHER -> FALSE

\* ChannelMessageMatcher::getAddress()
getAddress(m) == MIDIAddress(m.data1, m.channel, m.cable)

----------------------------------------------------------------------------
(* struct TwoByteMIDIMatcher: self is [address] *)

TwoByteMIDIMatcher(self, m) ==
    IF ~MIDIAddress_matchSingle(getAddress(m), self.address)
        THEN [match |-> FALSE, value |-> 0]
        ELSE [match |-> TRUE,
              value |-> IF m.type = "NOTE_OFF" THEN 0 ELSE m.data2]

\* a range matcher that passes data2 on, whatever the type of the message
TwoByteRangeMIDIMatcher_noNoteOff(self, m) ==
    IF ~MIDIAddress_matchAddressInRange(getAddress(m), self.address, self.length)
        THEN [match |-> FALSE, value |-> 0, index |-> 0]
        ELSE [match |-> TRUE, value |-> m.data2,
              index |-> U8(m.data1 - self.address.address)]

(* struct TwoByteRangeMIDIMatcher: self is [address, length] *)

TwoByteRangeMIDIMatcher(self, m) ==
    IF ~MIDIAddress_matchAddressInRange(getAddress(m), self.address, self.length)
        THEN [match |-> FALSE, value |-> 0, index |-> 0]
        ELSE [match |-> TRUE,
              value |-> IF m.type = "NOTE_OFF" THEN 0 ELSE m.data2,
              index |-> U8(m.data1 - self.address.address)]

----------------------------------------------------------------------------
(* struct BankableTwoByteMIDIMatcher<BankSize>: self is [config, address] *)

BankableTwoByteMIDIMatcher(self, m) ==
    IF ~matchBankableAddress(getAddress(m), self.address, self.config)
        THEN [match |-> FALSE, value |-> 0, bankIndex |-> 0]
        ELSE [match |-> TRUE,
              value |-> IF m.type = "NOTE_OFF" THEN 0 ELSE m.data2,
              bankIndex |-> getBankIndex(getAddress(m), self.address, self.config)]

----------------------------------------------------------------------------
(* struct BankableTwoByteRangeMIDIMatcher<BankSize>:                        *)
(* self is [config, address, length]                                        *)

\* matchBankableInRange() without the comparison toMatch >= base
matchBankableInRange_noSign(self, toMatch, base, length) ==
    LET diff == U8(toMatch - base) IN
    /\ diff < self.config.bank.size * self.config.bank.tracksPerBank
    /\ diff % self.config.bank.tracksPerBank < length

\* matchBankableInRange() whose range is one address longer
matchBankableInRange_longer(self, toMatch, base, length) ==
    LET diff == U8(toMatch - base) IN
    /\ toMatch >= base
    /\ diff < self.config.bank.size * self.config.bank.tracksPerBank
    /\ diff % self.config.bank.tracksPerBank <= length

\* bool matchBankableInRange(uint8_t toMatch, uint8_t base, uint8_t length)
matchBankableInRange(self, toMatch, base, length) ==
    LET diff == U8(toMatch - base) IN
    /\ toMatch >= base
    /\ diff < self.config.bank.size * self.config.bank.tracksPerBank
    /\ diff % self.config.bank.tracksPerBank < length

\* getRangeIndex() that keeps the bank in the difference
getRangeIndex_noMod(self, target, base) == U8(target.address - base.address)

\* uint8_t getRangeIndex(MIDIAddress target, MIDIAddress base)
getRangeIndex(self, target, base) ==
    LET diff == U8(target.address - base.address) IN
    IF self.config.type = "CHANGE_ADDRESS"
        THEN diff % self.config.bank.tracksPerBank
        ELSE diff

\* static bool inRange(uint8_t toMatch, uint8_t base, uint8_t length)
inRange(toMatch, base, length) == (base <= toMatch) /\ (toMatch - base < length)

\* bool matchBankableAddressInRange(MIDIAddress toMatch, MIDIAddress base)
matchBankableAddressInRange(self, toMatch, base) ==
    IF ~toMatch.valid \/ ~base.valid THEN FALSE
    ELSE CASE self.config.type = "CHANGE_ADDRESS" ->
                /\ toMatch.channel = base.channel
                /\ toMatch.cableNumber = base.cableNumber
                /\ matchBankableInRange(self, toMatch.address, base.address,
                                        self.length)
           [] self.config.type = "CHANGE_CHANNEL" ->
                /\ inRange(toMatch.address, base.address, self.length)
                /\ toMatch.cableNumber = base.cableNumber
                /\ matchBankable(toMatch.channel, base.channel, self.config.bank)
           [] self.config.type = "CHANGE_CABLENB" ->
                /\ inRange(toMatch.address, base.address, self.length)
                /\ toMatch.channel = base.channel
                /\ matchBankable(toMatch.cableNumber, base.cableNumber,
                                 self.config.bank)
           [] OTHER -> FALSE

BankableTwoByteRangeMIDIMatcher(self, m) ==
    IF ~matchBankableAddressInRange(self, getAddress(m), self.address)
        THEN [match |-> FALSE, value |-> 0, bankIndex |-> 0, index |-> 0]
        ELSE [match |-> TRUE,
              value |-> IF m.type = "NOTE_OFF" THEN 0 ELSE m.data2,
              bankIndex |-> getBankIndex(getAddress(m), self.address, self.config),
              index |-> getRangeIndex(self, getAddress(m), self.address)]

----------------------------------------------------------------------------
(* struct MCU::VUMatcher: self is [address] *)

\* a matcher that passes the whole data byte on
VUMatcher_noMask(self, m) ==
    LET track == m.data1 \div 16 IN
    IF ~MIDIAddress_matchSingle(MIDIAddress(track, m.channel, m.cable), self.address)
        THEN [match |-> FALSE, data |-> 0]
        ELSE [match |-> TRUE, data |-> m.data1]

VUMatcher(self, m) ==
    LET track == m.data1 \div 16 IN
    IF ~MIDIAddress_matchSingle(MIDIAddress(track, m.channel, m.cable), self.address)
        THEN [match |-> FALSE, data |-> 0]
        ELSE [match |-> TRUE, data |-> m.data1 % 16]

(* struct MCU::Bankable::VUMatcher<BankSize>: self is [config, address] *)

Bankable_VUMatcher(self, m) ==
    LET track == m.data1 \div 16
        midiaddr == MIDIAddress(track, m.channel, m.cable)
    IN  IF ~matchBankableAddress(midiaddr, self.address, self.config)
            THEN [match |-> FALSE, data |-> 0, bankIndex |-> 0]
            ELSE [match |-> TRUE, data |-> m.data1 % 16,
                  bankIndex |-> getBankIndex(midiaddr, self.address, self.config)]

----------------------------------------------------------------------------
(* class MCU::NewVU: el is [state, dirty, decayTimer] *)

\* NewVU(uint8_t track, MIDIChannelCN channel, unsigned int decayTime), track 1
NewVU_matcher == [address |-> MIDIAddress(1 - 1, 0, 0)]

\* the members after construction; the timer is either due or has just begun
NewVU_new(decayTime, elapsed) ==
    [state |-> VUState(0, FALSE), dirty |-> TRUE,
     decayTimer |-> Timer(decayTime, elapsed)]

\* handleUpdate() that marks the element dirty for a new level only
NewVU_handleUpdate_valueOnly(el, match) ==
    LET u == VUState_update(el.state, match.data) IN
    IF u.changed = ValueChanged
        THEN [state |-> u.state,
              decayTimer |-> Timer_beginNextPeriod(el.decayTimer),
              dirty |-> TRUE]
        ELSE [el EXCEPT !.state = u.state]

\* handleUpdate() that leaves the decay timer running
NewVU_handleUpdate_noRestart(el, match) ==
    LET u == VUState_update(el.state, match.data) IN
    IF u.changed # NothingChanged
        THEN [state |-> u.state, decayTimer |-> el.decayTimer, dirty |-> TRUE]
        ELSE [el EXCEPT !.state = u.state]

\* handleUpdate() that restarts the timer for every matched message
NewVU_handleUpdate_alwaysRestart(el, match) ==
    LET u == VUState_update(el.state, match.data) IN
    [state |-> u.state,
     decayTimer |-> Timer_beginNextPeriod(el.decayTimer),
     dirty |-> (el.dirty \/ u.changed # NothingChanged)]

\* void NewVU::handleUpdate(VUMatcher::Result match)
NewVU_handleUpdate(el, match) ==
    LET u == VUState_update(el.state, match.data) IN
    IF u.changed # NothingChanged
        THEN [state |-> u.state,
              decayTimer |-> IF u.changed = ValueChanged
                                 THEN Timer_beginNextPeriod(el.decayTimer)
                                 ELSE el.decayTimer,
              dirty |-> TRUE]
        ELSE [el EXCEPT !.state = u.state]

\* MatchingMIDIInputElement::updateWith(m): match, then handleUpdate
NewVU_updateWith(el, m) ==
    LET match == VUMatcher(NewVU_matcher, m) IN
    IF m.type = "CHANNEL_PRESSURE" /\ match.match
        THEN NewVU_handleUpdate(el, match)
        ELSE el

\* void NewVU::reset()
NewVU_reset(el) == [el EXCEPT !.state = VUState(0, FALSE)]

\* update() that does not test for VUDecay::Hold
NewVU_decays_noHold(el) == Timer_elapsed(el.decayTimer)

\* whether update() takes the decay branch
NewVU_decays(el) == el.decayTimer.interval # Hold /\ Timer_elapsed(el.decayTimer)

\* void NewVU::update(); t is the timer after operator bool returned true
NewVU_update(el, t) ==
    IF NewVU_decays(el)
        THEN LET d == VUState_decay(el.state) IN
             [state |-> d.state, dirty |-> (el.dirty \/ d.ret), decayTimer |-> t]
        ELSE el

\* void NewVU::clearDirty()
NewVU_clearDirty(el) == [el EXCEPT !.dirty = FALSE]

----------------------------------------------------------------------------
(* class MCU::Bankable::NewVU<BankSize>: el is [states, dirty, decayTimer] *)

\* NewVU(config, track, channel, decayTime): track 1, the address changes
\* with the bank, one track per bank
Bankable_matcher ==
    [config |-> BankConfig(Bank(BankSize, 1), "CHANGE_ADDRESS"),
     address |-> MIDIAddress(1 - 1, 0, 0)]

Bankable_new(decayTime, elapsed) ==
    [states |-> [i \in Banks |-> VUState(0, FALSE)], dirty |-> TRUE,
     decayTimer |-> Timer(decayTime, elapsed)]

\* handleUpdate() that restarts the timer for a new level of any bank
Bankable_handleUpdate_anyBank(el, match, active) ==
    LET u == VUState_update(el.states[match.bankIndex], match.data) IN
    IF u.changed # NothingChanged
        THEN [states |-> [el.states EXCEPT ![match.bankIndex] = u.state],
              decayTimer |-> IF u.changed = ValueChanged
                                 THEN Timer_beginNextPeriod(el.decayTimer)
                                 ELSE el.decayTimer,
              dirty |-> TRUE]
        ELSE [el EXCEPT !.states[match.bankIndex] = u.state]

\* void Bankable::NewVU::handleUpdate(match); active is getActiveBank()
Bankable_handleUpdate(el, match, active) ==
    LET u == VUState_update(el.states[match.bankIndex], match.data) IN
    IF u.changed # NothingChanged
        THEN [states |-> [el.states EXCEPT ![match.bankIndex] = u.state],
              decayTimer |-> IF u.changed = ValueChanged /\ match.bankIndex = active
                                 THEN Timer_beginNextPeriod(el.decayTimer)
                                 ELSE el.decayTimer,
              dirty |-> TRUE]
        ELSE [el EXCEPT !.states[match.bankIndex] = u.state]

\* BankableMatchingMIDIInputElement::updateWith(m): match, then handleUpdate
Bankable_updateWith(el, m, active) ==
    LET match == Bankable_VUMatcher(Bankable_matcher, m) IN
    IF m.type = "CHANNEL_PRESSURE" /\ match.match
        THEN Bankable_handleUpdate(el, match, active)
        ELSE el

\* reset() that leaves the dirty flag as it is
Bankable_reset_keepsDirty(el) ==
    [el EXCEPT !.states = [i \in Banks |-> VUState(0, FALSE)]]

\* void Bankable::NewVU::reset()
Bankable_reset(el) ==
    [el EXCEPT !.states = [i \in Banks |-> VUState(0, FALSE)], !.dirty = TRUE]

\* whether update() takes the decay branch
Bankable_decays(el) == el.decayTimer.interval # Hold /\ Timer_elapsed(el.decayTimer)

\* update() that marks the element dirty for the decay of any bank
Bankable_update_anyBank(el, t, active) ==
    IF Bankable_decays(el)
        THEN [states |-> [i \in Banks |-> VUState_decay(el.states[i]).state],
              dirty |-> (el.dirty \/ \E i \in Banks : VUState_decay(el.states[i]).ret),
              decayTimer |-> t]
        ELSE el

\* void Bankable::NewVU::update(); t is the timer after operator bool returned true
Bankable_update(el, t, active) ==
    IF Bankable_decays(el)
        THEN [states |-> [i \in Banks |-> VUState_decay(el.states[i]).state],
              dirty |-> (el.dirty \/
                         \E i \in Banks : VUState_decay(el.states[i]).ret /\ i = active),
              decayTimer |-> t]
        ELSE el

\* void Bankable::NewVU::clearDirty()
Bankable_clearDirty(el) == [el EXCEPT !.dirty = FALSE]

----------------------------------------------------------------------------
(* The sketch: one element, its callers and the clock *)

\* millis() advances by one step: the timer of the element sees it on its next call
Timer_millis(t) == [t EXCEPT !.elapsed = @ + 1]

\* the channel pressure messages the MIDI interface delivers: for the tracks of
\* the banks with every data nibble, and one for another track
Messages ==
    {VUMessage(track, data) : track \in Banks, data \in Nibbles} \cup {VUMessage(7, 0)}

\* the same with the levels 0..MaxLevel only
ShortMessages == {m \in Messages : m.data1 % 16 \in (0..MaxLevel) \cup {13, 14, 15}}

\* a channel pressure message arrives at the NewVU
NewVU_Message(m) ==
    /\ sketch = "NewVU"
    /\ vu' = NewVU_updateWith(vu, m)
    /\ UNCHANGED <<sketch, bvu, selection>>

\* the main loop calls update() on the NewVU
NewVU_Tick ==
    /\ sketch = "NewVU"
    /\ \E t \in Timer_consumed(vu.decayTimer) : vu' = NewVU_update(vu, t)
    /\ UNCHANGED <<sketch, bvu, selection>>

\* the application calls reset() on the NewVU
NewVU_Reset ==
    /\ sketch = "NewVU"
    /\ vu' = NewVU_reset(vu)
    /\ UNCHANGED <<sketch, bvu, selection>>

\* the application calls clearDirty() on the NewVU
NewVU_ClearDirty ==
    /\ sketch = "NewVU"
    /\ vu' = NewVU_clearDirty(vu)
    /\ UNCHANGED <<sketch, bvu, selection>>

\* time passes for the NewVU
NewVU_Millis ==
    /\ sketch = "NewVU"
    /\ vu.decayTimer.elapsed < MaxElapsed
    /\ vu' = [vu EXCEPT !.decayTimer = Timer_millis(@)]
    /\ UNCHANGED <<sketch, bvu, selection>>

\* a channel pressure message arrives at the Bankable::NewVU
Bankable_Message(m) ==
    /\ sketch = "Bankable"
    /\ bvu' = Bankable_updateWith(bvu, m, selection)
    /\ UNCHANGED <<sketch, vu, selection>>

\* the main loop calls update() on the Bankable::NewVU
Bankable_Tick ==
    /\ sketch = "Bankable"
    /\ \E t \in Timer_consumed(bvu.decayTimer) :
          bvu' = Bankable_update(bvu, t, selection)
    /\ UNCHANGED <<sketch, vu, selection>>

\* the application calls reset() on the Bankable::NewVU
Bankable_Reset ==
    /\ sketch = "Bankable"
    /\ bvu' = Bankable_reset(bvu)
    /\ UNCHANGED <<sketch, vu, selection>>

\* the application calls clearDirty() on the Bankable::NewVU
Bankable_ClearDirty ==
    /\ sketch = "Bankable"
    /\ bvu' = Bankable_clearDirty(bvu)
    /\ UNCHANGED <<sketch, vu, selection>>

\* time passes for the Bankable::NewVU
Bankable_Millis ==
    /\ sketch = "Bankable"
    /\ bvu.decayTimer.elapsed < MaxElapsed
    /\ bvu' = [bvu EXCEPT !.decayTimer = Timer_millis(@)]
    /\ UNCHANGED <<sketch, vu, selection>>

\* the bank selector selects another bank
Bankable_Select(b) ==
    /\ sketch = "Bankable"
    /\ b # selection
    /\ selection' = b
    /\ UNCHANGED <<sketch, vu, bvu>>

----------------------------------------------------------------------------
(* History of a run, recorded beside the calls *)

hist == <<last, seen, sinceValue, script, sinceSame>>

\* the history record of a call
Call(op, match, bankIndex, changed, fired) ==
    [op |-> op, match |-> match, bankIndex |-> bankIndex, changed |-> changed,
     fired |-> fired]

Other == Call("other", FALSE, 0, NothingChanged, FALSE)

\* the messages 0x5, 0xE, 0xF in this order
ScriptData == <<5, 14, 15>>

H_NewVU_Message(m) ==
    LET match == VUMatcher(NewVU_matcher, m)
        changed == IF match.match
                       THEN VUState_update(vu.state, match.data).changed
                       ELSE NothingChanged
    IN  /\ last' = Call("message", match.match, 0, changed, FALSE)
        /\ sinceValue' = IF changed = ValueChanged THEN 0 ELSE sinceValue
        /\ script' = IF ~match.match THEN script
                     ELSE IF script \in 0..2 /\ match.data = ScriptData[script + 1]
                              THEN script + 1
                              ELSE -1
        /\ seen' = seen

H_NewVU_Tick ==
    /\ last' = Call("update", FALSE, 0, NothingChanged, NewVU_decays(vu))
    /\ script' = IF NewVU_decays(vu) THEN -1 ELSE script
    /\ UNCHANGED <<seen, sinceValue>>

H_NewVU_Reset ==
    /\ last' = Call("reset", FALSE, 0, NothingChanged, FALSE)
    /\ script' = -1
    /\ UNCHANGED <<seen, sinceValue>>

H_NewVU_ClearDirty ==
    /\ last' = Other
    /\ seen' = vu.state
    /\ UNCHANGED <<sinceValue, script>>

H_NewVU_Millis ==
    /\ last' = Other
    /\ sinceValue' = IF sinceValue = -1 \/ sinceValue = DecayTime
                         THEN sinceValue
                         ELSE sinceValue + 1
    /\ UNCHANGED <<seen, script>>

\* whether the message is matched and sends the level the NewVU has
NewVU_sameLevel(m) ==
    LET match == VUMatcher(NewVU_matcher, m) IN
    match.match /\ match.data = vu.state.value

S_NewVU_Message(m) ==
    LET match == VUMatcher(NewVU_matcher, m) IN
    sinceSame' =
        IF NewVU_sameLevel(m) THEN 0
        ELSE IF match.match /\ VUState_update(vu.state, match.data).changed = ValueChanged
            THEN -1
            ELSE sinceSame

S_NewVU_Millis ==
    sinceSame' = IF sinceSame = -1 \/ sinceSame = DecayTime
                     THEN sinceSame
                     ELSE sinceSame + 1

H_Bankable_Message(m) ==
    LET match == Bankable_VUMatcher(Bankable_matcher, m)
        changed == IF match.match
                       THEN VUState_update(bvu.states[match.bankIndex],
                                           match.data).changed
                       ELSE NothingChanged
    IN  /\ last' = Call("message", match.match, match.bankIndex, changed, FALSE)
        /\ UNCHANGED <<seen, sinceValue, script>>

H_Bankable_Tick ==
    /\ last' = Call("update", FALSE, 0, NothingChanged, Bankable_decays(bvu))
    /\ UNCHANGED <<seen, sinceValue, script>>

H_Bankable_Reset ==
    /\ last' = Call("reset", FALSE, 0, NothingChanged, FALSE)
    /\ UNCHANGED <<seen, sinceValue, script>>

H_Bankable_Other ==
    /\ last' = Other
    /\ UNCHANGED <<seen, sinceValue, script>>

----------------------------------------------------------------------------
(* The sketch calls a bankable matcher *)

BankTypes == {"CHANGE_ADDRESS", "CHANGE_CHANNEL", "CHANGE_CABLENB"}

\* the addresses a matcher is constructed with, and the invalid address
Addresses ==
    {MIDIAddress(address, channel, cableNumber) :
        address \in {0, 3}, channel \in {0, 1}, cableNumber \in {0, 1}}
        \cup {MIDIAddress_invalid}

\* the bank configurations, base addresses and lengths of the matchers under test
Matchers ==
    {[config |-> BankConfig(Bank(size, tracksPerBank), type),
      address |-> address, length |-> length] :
        size \in 1..MaxBanks, tracksPerBank \in 1..MaxTracksPerBank,
        type \in BankTypes, address \in Addresses, length \in 1..MaxLength}

\* the messages with two data bytes
TwoByteMessages ==
    {ChannelMessage(type, channel, data1, 100, cable) :
        type \in {"NOTE_ON", "NOTE_OFF"},
        channel \in 0..MaxChannel, data1 \in 0..MaxAddress, cable \in 0..MaxCable}

\* the channel pressure messages, for every track
PressureMessages ==
    {ChannelMessage("CHANNEL_PRESSURE", channel, track * 16 + data, 0, cable) :
        channel \in 0..MaxChannel, track \in 0..7, data \in {0, 5, 14},
        cable \in 0..MaxCable}

Result(matcher, m, out) == [matcher |-> matcher, m |-> m, out |-> out]

NoResult == Result("none", ChannelMessage("NOTE_ON", 0, 0, 0, 0), [match |-> FALSE])

Match_TwoByte(m) ==
    /\ res' = Result("TwoByte", m, TwoByteMIDIMatcher(mt, m))
    /\ UNCHANGED <<sketch, vu, bvu, selection, hist, mt>>

Match_TwoByteRange(m) ==
    /\ res' = Result("TwoByteRange", m, TwoByteRangeMIDIMatcher(mt, m))
    /\ UNCHANGED <<sketch, vu, bvu, selection, hist, mt>>

Match_BankableTwoByte(m) ==
    /\ res' = Result("BankableTwoByte", m, BankableTwoByteMIDIMatcher(mt, m))
    /\ UNCHANGED <<sketch, vu, bvu, selection, hist, mt>>

Match_BankableTwoByteRange(m) ==
    /\ res' = Result("BankableTwoByteRange", m, BankableTwoByteRangeMIDIMatcher(mt, m))
    /\ UNCHANGED <<sketch, vu, bvu, selection, hist, mt>>

Match_BankableVU(m) ==
    /\ res' = Result("BankableVU", m, Bankable_VUMatcher(mt, m))
    /\ UNCHANGED <<sketch, vu, bvu, selection, hist, mt>>

\* the sketch calls matchBankable(MIDIAddress, MIDIAddress, config) itself
Call_matchBankable(toMatch) ==
    /\ res' = Result("matchBankable", toMatch,
                     [match |-> matchBankableAddress(toMatch, mt.address, mt.config)])
    /\ UNCHANGED <<sketch, vu, bvu, selection, hist, mt>>

\* the sketch calls matchBankableAddressInRange(toMatch, base) itself
Call_matchBankableAddressInRange(toMatch) ==
    /\ res' = Result("matchBankableAddressInRange", toMatch,
                     [match |-> matchBankableAddressInRange(mt, toMatch, mt.address)])
    /\ UNCHANGED <<sketch, vu, bvu, selection, hist, mt>>

----------------------------------------------------------------------------
(* The sketch calls the helpers that compare two uint8_t fields *)

\* 7-bit fields next to 0 and next to 127
Fields == (0..MaxOffset) \cup ((127 - MaxOffset)..127)

\* banks of a few tracks, and banks of 65 and of 128 tracks
HelperMatchers ==
    {[config |-> BankConfig(Bank(size, tracksPerBank), "CHANGE_ADDRESS"),
      address |-> MIDIAddress(0, 0, 0), length |-> length] :
        size \in 1..MaxBanks,
        tracksPerBank \in (1..MaxTracksPerBank) \cup {65, 128},
        length \in 1..MaxLength}

\* uint8_t arguments next to 0, 127, 128 and 255
Bytes == Fields \cup (128..(128 + MaxOffset)) \cup ((255 - MaxOffset)..255)

FieldPair(toMatch, base) == [toMatch |-> toMatch, base |-> base]

\* matchBankable(uint8_t toMatch, uint8_t base, bank)
Call_matchBankableField(toMatch, base) ==
    /\ res' = Result("matchBankableField", FieldPair(toMatch, base),
                     [match |-> matchBankable(toMatch, base, mt.config.bank)])
    /\ UNCHANGED <<sketch, vu, bvu, selection, hist, mt>>

\* matchBankable(toMatch, base, bank) and matchBankableInRange(toMatch, base, 1)
Call_matchBankableBoth(toMatch, base) ==
    /\ res' = Result("matchBankableBoth", FieldPair(toMatch, base),
                     [match |-> matchBankable(toMatch, base, mt.config.bank),
                      inRange |-> matchBankableInRange(mt, toMatch, base, 1)])
    /\ UNCHANGED <<sketch, vu, bvu, selection, hist, mt>>

\* matchBankableInRange(uint8_t toMatch, uint8_t base, uint8_t length)
Call_matchBankableInRange(toMatch, base) ==
    /\ res' = Result("matchBankableInRange", FieldPair(toMatch, base),
                     [match |-> matchBankableInRange(mt, toMatch, base, mt.length)])
    /\ UNCHANGED <<sketch, vu, bvu, selection, hist, mt>>

----------------------------------------------------------------------------
(* The sketch calls update() of a VUState *)

\* the call of update(): its argument and the state it was called on
UpdateCall(data, before) == [data |-> data, before |-> before]

VUState_Update(data) ==
    LET u == VUState_update(vu.state, data) IN
    /\ vu' = [vu EXCEPT !.state = u.state]
    /\ res' = Result("update", UpdateCall(data, vu.state), [changed |-> u.changed])
    /\ UNCHANGED <<sketch, bvu, selection, hist, mt>>

----------------------------------------------------------------------------
(* The sketch calls the matcher of a VU meter of any track *)

\* the matcher that NewVU(track, channel) constructs: {track - 1, channel}
NewVU_matcherOf(track, channel, cableNumber) ==
    [track |-> track,
     config |-> BankConfig(Bank(1, 1), "CHANGE_ADDRESS"),
     address |-> MIDIAddress(track - 1, channel, cableNumber),
     length |-> 1]

\* the matcher that Bankable::NewVU(config, track, channel) constructs
Bankable_matcherOf(config, track, channel, cableNumber) ==
    [track |-> track,
     config |-> config,
     address |-> MIDIAddress(track - 1, channel, cableNumber),
     length |-> 1]

VUMatchers ==
    {NewVU_matcherOf(track, channel, cableNumber) :
        track \in 1..8, channel \in {0, 1}, cableNumber \in {0, 1}}

BankableVUMatchers ==
    {Bankable_matcherOf(BankConfig(Bank(size, tracksPerBank), type), track, channel, 0) :
        size \in 1..MaxBanks, tracksPerBank \in 1..MaxTracksPerBank,
        type \in BankTypes, track \in 1..8, channel \in {0, 1}}

\* the channel pressure messages, for every data byte
DataByteMessages ==
    {ChannelMessage("CHANNEL_PRESSURE", channel, data1, 0, cable) :
        channel \in 0..MaxChannel, data1 \in 0..127, cable \in 0..MaxCable}

Match_VU(m) ==
    /\ res' = Result("VU", m, VUMatcher(mt, m))
    /\ UNCHANGED <<sketch, vu, bvu, selection, hist, mt>>

----------------------------------------------------------------------------
(* Specifications *)

InitHistory ==
    /\ last = Other
    /\ seen = VUState(0, FALSE)
    /\ sinceValue = -1
    /\ script = 0
    /\ sinceSame = -1

\* the matcher of a sketch that tests no matcher
NoMatcher ==
    [config |-> BankConfig(Bank(1, 1), "CHANGE_ADDRESS"),
     address |-> MIDIAddress(0, 0, 0), length |-> 1]

Init ==
    /\ sketch \in {"NewVU", "Bankable"}
    /\ \E decayTime \in {Hold, DecayTime} : \E elapsed \in {0, decayTime} :
          \/ /\ sketch = "NewVU"
             /\ vu = NewVU_new(decayTime, elapsed)
             /\ bvu = Bankable_new(Hold, 0)
          \/ /\ sketch = "Bankable"
             /\ vu = NewVU_new(Hold, 0)
             /\ bvu = Bankable_new(decayTime, elapsed)
    /\ selection = 0
    /\ InitHistory
    /\ mt = NoMatcher
    /\ res = NoResult

\* every message, no history
Next ==
    /\ UNCHANGED <<hist, mt, res>>
    /\ \/ \E m \in Messages : NewVU_Message(m)
       \/ NewVU_Tick
       \/ NewVU_Reset
       \/ NewVU_ClearDirty
       \/ NewVU_Millis
       \/ \E m \in Messages : Bankable_Message(m)
       \/ Bankable_Tick
       \/ Bankable_Reset
       \/ Bankable_ClearDirty
       \/ Bankable_Millis
       \/ \E b \in Banks : Bankable_Select(b)

Spec == Init /\ [][Next]_vars

\* the calls of the NewVU with their history
NewVU_NextH ==
    \/ \E m \in ShortMessages : NewVU_Message(m) /\ H_NewVU_Message(m)
    \/ NewVU_Tick /\ H_NewVU_Tick
    \/ NewVU_Reset /\ H_NewVU_Reset
    \/ NewVU_ClearDirty /\ H_NewVU_ClearDirty
    \/ NewVU_Millis /\ H_NewVU_Millis

\* the calls of the Bankable::NewVU with their history
Bankable_NextH ==
    \/ \E m \in ShortMessages : Bankable_Message(m) /\ H_Bankable_Message(m)
    \/ Bankable_Tick /\ H_Bankable_Tick
    \/ Bankable_Reset /\ H_Bankable_Reset
    \/ Bankable_ClearDirty /\ H_Bankable_Other
    \/ Bankable_Millis /\ H_Bankable_Other
    \/ \E b \in Banks : Bankable_Select(b) /\ H_Bankable_Other

\* the levels 0..MaxLevel, with the history
NextH ==
    /\ UNCHANGED <<sinceSame, mt, res>>
    /\ (NewVU_NextH \/ Bankable_NextH)

SpecH == Init /\ [][NextH]_vars

\* a NewVU that decays, in a main loop that keeps calling update() while the
\* clock runs
InitLive ==
    /\ sketch = "NewVU"
    /\ \E elapsed \in {0, DecayTime} : vu = NewVU_new(DecayTime, elapsed)
    /\ bvu = Bankable_new(Hold, 0)
    /\ selection = 0
    /\ InitHistory
    /\ mt = NoMatcher
    /\ res = NoResult

NextLive ==
    /\ UNCHANGED <<sinceSame, mt, res>>
    /\ NewVU_NextH

SpecLive ==
    /\ InitLive
    /\ [][NextLive]_vars
    /\ WF_vars(NewVU_Tick /\ H_NewVU_Tick /\ UNCHANGED <<sinceSame, mt, res>>)
    /\ WF_vars(NewVU_Millis /\ H_NewVU_Millis /\ UNCHANGED <<sinceSame, mt, res>>)

\* a NewVU that is sent the level it has
NextSame ==
    /\ UNCHANGED <<mt, res>>
    /\ \/ \E m \in ShortMessages :
             NewVU_Message(m) /\ H_NewVU_Message(m) /\ S_NewVU_Message(m)
       \/ NewVU_Tick /\ H_NewVU_Tick /\ UNCHANGED sinceSame
       \/ NewVU_Reset /\ H_NewVU_Reset /\ UNCHANGED sinceSame
       \/ NewVU_ClearDirty /\ H_NewVU_ClearDirty /\ UNCHANGED sinceSame
       \/ NewVU_Millis /\ H_NewVU_Millis /\ S_NewVU_Millis

SpecSame == InitLive /\ [][NextSame]_vars

\* the matchers without banks: an address and a length
PlainMatchers == {m \in Matchers : m.config = NoMatcher.config}

\* a sketch that calls one matcher with one message
InitMatch ==
    /\ \/ sketch = "Matcher" /\ mt \in Matchers
       \/ sketch = "PlainMatcher" /\ mt \in PlainMatchers
    /\ vu = NewVU_new(Hold, 0)
    /\ bvu = Bankable_new(Hold, 0)
    /\ selection = 0
    /\ InitHistory
    /\ res = NoResult

\* the calls of a matcher with banks
NextBankable ==
    /\ sketch = "Matcher"
    /\ \/ \E m \in TwoByteMessages : Match_BankableTwoByte(m)
       \/ \E m \in TwoByteMessages : Match_BankableTwoByteRange(m)
       \/ \E m \in PressureMessages : Match_BankableVU(m)
       \/ \E toMatch \in Addresses : Call_matchBankable(toMatch)
       \/ \E toMatch \in Addresses : Call_matchBankableAddressInRange(toMatch)

\* the calls of a matcher without banks
NextPlain ==
    /\ sketch = "PlainMatcher"
    /\ \/ \E m \in TwoByteMessages : Match_TwoByte(m)
       \/ \E m \in TwoByteMessages : Match_TwoByteRange(m)

\* the sketch calls the matcher once
NextMatch ==
    /\ res = NoResult
    /\ (NextBankable \/ NextPlain)

\* a sketch that keeps calling update() of one VUState
InitState ==
    /\ sketch = "VUState"
    /\ vu = NewVU_new(Hold, 0)
    /\ bvu = Bankable_new(Hold, 0)
    /\ selection = 0
    /\ InitHistory
    /\ mt = NoMatcher
    /\ res = NoResult

NextState ==
    /\ sketch = "VUState"
    /\ \E data \in Nibbles : VUState_Update(data)

SpecState == InitState /\ [][NextState]_vars

\* a sketch that calls the matcher of one VU meter with one message
InitVU ==
    /\ \/ sketch = "VUMatcher" /\ mt \in VUMatchers
       \/ sketch = "BankableVUMatcher" /\ mt \in BankableVUMatchers
    /\ vu = NewVU_new(Hold, 0)
    /\ bvu = Bankable_new(Hold, 0)
    /\ selection = 0
    /\ InitHistory
    /\ res = NoResult

NextVU ==
    /\ res = NoResult
    /\ \/ sketch = "VUMatcher" /\ \E m \in DataByteMessages : Match_VU(m)
       \/ sketch = "BankableVUMatcher" /\ \E m \in DataByteMessages : Match_BankableVU(m)

SpecVU == InitVU /\ [][NextVU]_vars

\* a sketch that calls one helper with one pair of fields
InitHelpers ==
    /\ sketch = "Helpers"
    /\ mt \in HelperMatchers
    /\ vu = NewVU_new(Hold, 0)
    /\ bvu = Bankable_new(Hold, 0)
    /\ selection = 0
    /\ InitHistory
    /\ res = NoResult

NextHelpers ==
    /\ sketch = "Helpers"
    /\ res = NoResult
    /\ \/ \E toMatch \in Fields, base \in Fields : Call_matchBankableField(toMatch, base)
       \/ \E toMatch \in Fields, base \in Fields : Call_matchBankableInRange(toMatch, base)
       \/ \E toMatch \in Bytes, base \in Bytes : Call_matchBankableBoth(toMatch, base)

SpecHelpers == InitHelpers /\ [][NextHelpers]_vars

SpecMatch == InitMatch /\ [][NextMatch]_vars

----------------------------------------------------------------------------
(* Properties of the VU elements *)

\* the timer of the element of the sketch
LiveTimer == IF sketch = "NewVU" THEN vu.decayTimer ELSE bvu.decayTimer

\* C1: in both elements every stored VUState.value is in [0, 12] after any
\* messages, ticks, reset() and clearDirty() calls; decay never goes below 0
C1_ValueInRange ==
    /\ vu.state.value \in 0..12
    /\ \A i \in Banks : bvu.states[i].value \in 0..12

\* the full level in one bank, the other bank full and decayed by one step
C1_Witness ==
    /\ sketch = "Bankable"
    /\ bvu.states[BankSize - 1].value = 12
    /\ bvu.states[0].value = 11
    /\ bvu.decayTimer.interval # Hold

\* C2: a matched message for a bank other than the selected one leaves dirty()
\* false when it was false before the message
C2_NonActiveKeepsClean ==
    [][(/\ sketch = "Bankable"
        /\ last'.op = "message" /\ last'.match
        /\ last'.bankIndex # selection
        /\ ~bvu.dirty)
       => ~bvu'.dirty]_vars

\* C3: a matched message with bank index b updates only states[b], and restarts
\* the decay timer iff it reports ValueChanged and b is the selected bank
C3_OnlyOwnSlotAndTimer ==
    [][(sketch = "Bankable" /\ last'.op = "message" /\ last'.match)
       => /\ \A i \in Banks \ {last'.bankIndex} : bvu'.states[i] = bvu.states[i]
          /\ bvu'.decayTimer =
                IF last'.changed = ValueChanged /\ last'.bankIndex = selection
                    THEN Timer_beginNextPeriod(bvu.decayTimer)
                    ELSE bvu.decayTimer]_vars

\* a message has changed the level of the selected bank 1 and restarted the timer
C3_Witness ==
    /\ sketch = "Bankable"
    /\ last.op = "message" /\ last.match /\ last.changed = ValueChanged
    /\ last.bankIndex = selection /\ selection = 1
    /\ bvu.decayTimer.interval # Hold /\ bvu.decayTimer.elapsed = 0
    /\ bvu.states[0].value > 0

\* C4: a tick on which the timer fires decrements every slot with value > 0 by
\* one, keeps the slots at 0 and every overload flag, and sets dirty only if
\* the slot of the selected bank was decremented
C4_DecayAllBanks ==
    [][(sketch = "Bankable" /\ last'.op = "update" /\ last'.fired)
       => /\ \A i \in Banks :
                /\ bvu'.states[i].value =
                      IF bvu.states[i].value > 0 THEN bvu.states[i].value - 1 ELSE 0
                /\ bvu'.states[i].overload = bvu.states[i].overload
          /\ (~bvu.dirty /\ bvu'.dirty) => bvu.states[selection].value > 0]_vars

\* a firing tick has decremented a bank that is not selected and left dirty false
C4_Witness ==
    /\ sketch = "Bankable"
    /\ last.op = "update" /\ last.fired
    /\ ~bvu.dirty
    /\ bvu.states[selection].value = 0
    /\ \E i \in Banks \ {selection} : bvu.states[i].value > 0

\* C5: whenever position() or overload() of the NewVU differs from what it was
\* at the most recent clearDirty(), dirty() is true
C5_DirtyReportsChange ==
    (sketch = "NewVU" /\ vu.state # seen) => vu.dirty

\* C6: a matched message sets dirty exactly when update() reports a change, a
\* firing tick exactly when decay() decremented the value; dirty stays true
\* through messages and ticks; and from a fresh element the messages 0x5, 0xE,
\* 0xF each leave dirty() true and end at position 5 without overload
C6_DirtySet ==
    /\ [][(sketch = "NewVU" /\ last'.op = "message" /\ last'.match)
            => vu'.dirty = (vu.dirty \/ last'.changed # NothingChanged)]_vars
    /\ [][(sketch = "NewVU" /\ last'.op = "update" /\ last'.fired)
            => vu'.dirty = (vu.dirty \/ vu'.state.value < vu.state.value)]_vars
    /\ [][(sketch = "NewVU" /\ last'.op \in {"message", "update"} /\ vu.dirty)
            => vu'.dirty]_vars
    /\ [][(script' \in 1..3 /\ script' # script) => vu'.dirty]_vars
    /\ [](script = 3 => (vu.state.value = 5 /\ ~vu.state.overload))

\* the three messages have arrived, with dirty cleared before the last of them
C6_Witness ==
    /\ sketch = "NewVU"
    /\ script = 3
    /\ last.op = "message" /\ last.changed = OverloadChanged
    /\ seen = VUState(5, TRUE)
    /\ vu.dirty

\* C7: a matched message restarts the decay timer of the NewVU iff update()
\* reports ValueChanged, and no decay step occurs less than one decay interval
\* after the most recent message that changed the value
C7_DecayFromLastValue ==
    /\ [][(sketch = "NewVU" /\ last'.op = "message" /\ last'.match)
            => vu'.decayTimer =
                  IF last'.changed = ValueChanged
                      THEN Timer_beginNextPeriod(vu.decayTimer)
                      ELSE vu.decayTimer]_vars
    /\ [][(sketch = "NewVU" /\ last'.op = "update" /\ last'.fired)
            => (sinceValue = -1 \/ sinceValue >= vu.decayTimer.interval)]_vars

\* a decay step one interval after a message that changed the value
C7_Witness ==
    /\ sketch = "NewVU"
    /\ last.op = "update" /\ last.fired
    /\ sinceValue = vu.decayTimer.interval
    /\ vu.state.value > 0

\* C8: a tick changes no value, no overload flag and not the dirty flag when the
\* decay interval is 0 or has not elapsed
C8_TickNoOp ==
    [][(/\ last'.op = "update"
        /\ (LiveTimer.interval = Hold \/ LiveTimer.elapsed < LiveTimer.interval))
       => /\ vu'.state = vu.state /\ vu'.dirty = vu.dirty
          /\ bvu'.states = bvu.states /\ bvu'.dirty = bvu.dirty]_vars

\* a tick of a holding element long after its last period began, with a level
\* that a decay step would have decremented
C8_Witness ==
    /\ sketch = "Bankable"
    /\ last.op = "update" /\ ~last.fired
    /\ bvu.decayTimer.interval = Hold /\ bvu.decayTimer.elapsed = MaxElapsed
    /\ bvu.states[selection].value > 0
    /\ ~bvu.dirty

\* C9: a decay step on a value v > 0 returns true and leaves v - 1, on 0 it
\* returns false and leaves the state as it is, and it never changes overload;
\* if from some time on no message changes the value and the timer keeps
\* firing on ticks, position() reaches 0 and stays there
C9_DecayToZero ==
    /\ [](LET d == VUState_decay(vu.state) IN
            /\ d.ret = (vu.state.value > 0)
            /\ d.state.value = IF vu.state.value > 0 THEN vu.state.value - 1 ELSE 0
            /\ d.state.overload = vu.state.overload)
    /\ [][(last'.op = "update" /\ last'.fired)
            => /\ vu'.state.value =
                     IF vu.state.value > 0 THEN vu.state.value - 1 ELSE 0
               /\ vu'.state.overload = vu.state.overload]_vars
    /\ ((/\ <>[](~(last.op = "message" /\ last.changed = ValueChanged))
         /\ []<><<last'.op = "update" /\ last'.fired>>_vars)
        => <>[](vu.state.value = 0))

\* a decay step has taken the last segment, a full interval after the level
\* was sent, and has kept the overload flag
C9_Witness ==
    /\ last.op = "update" /\ last.fired
    /\ vu.state.value = 0 /\ vu.state.overload
    /\ sinceValue = DecayTime
    /\ vu.dirty /\ seen.value = 1

\* C21: reset() of the Bankable::NewVU leaves every slot with value 0 and no
\* overload and the dirty flag set, whatever the state and the active bank
\* were; reset() of the NewVU leaves value 0 and no overload
C21_ResetZeroState ==
    last.op = "reset" =>
        /\ sketch = "Bankable" =>
              /\ \A b \in Banks : bvu.states[b].value = 0 /\ ~bvu.states[b].overload
              /\ bvu.dirty
        /\ sketch = "NewVU" =>
              vu.state.value = 0 /\ ~vu.state.overload

\* reset() of a NewVU that showed level 5 with overload at its last
\* clearDirty() and has not changed since
C21_Witness ==
    /\ sketch = "NewVU"
    /\ last.op = "reset"
    /\ seen = VUState(5, TRUE)
    /\ ~vu.dirty
    /\ vu.state = VUState(0, FALSE)

\* C24: a matched message that sends the NewVU the level it has reports
\* NothingChanged and leaves value, overload, the dirty flag and the decay
\* timer as they were
C24_SameLevelNoChange ==
    [][(\E m \in ShortMessages :
            /\ NewVU_sameLevel(m)
            /\ NewVU_Message(m) /\ H_NewVU_Message(m) /\ S_NewVU_Message(m))
        => /\ last'.op = "message" /\ last'.match
           /\ last'.changed = NothingChanged
           /\ vu'.state = vu.state
           /\ vu'.dirty = vu.dirty
           /\ vu'.decayTimer = vu.decayTimer]_vars

\* a decay step right after a message that sent the level the NewVU had,
\* while the flag was clear and the period that began with the last change of
\* the value was over
C24_Witness ==
    /\ sketch = "NewVU"
    /\ last.op = "update" /\ last.fired
    /\ sinceSame >= 0 /\ sinceSame < vu.decayTimer.interval
    /\ sinceValue >= vu.decayTimer.interval
    /\ seen.value = vu.state.value + 1
    /\ vu.dirty

----------------------------------------------------------------------------
(* Properties of the matchers *)

\* C10: whenever a bankable matcher reports a match, its bankIndex is less
\* than the number of banks
C10_BankIndexInBounds ==
    (res.matcher \in {"BankableTwoByte", "BankableTwoByteRange", "BankableVU"}
     /\ res.out.match)
        => res.out.bankIndex < mt.config.bank.size

\* the range matcher has matched the second address of the last bank
C10_Witness ==
    /\ res.matcher = "BankableTwoByteRange"
    /\ res.out.match
    /\ mt.config.type = "CHANGE_ADDRESS"
    /\ mt.config.bank.size = MaxBanks
    /\ mt.config.bank.tracksPerBank > 1
    /\ res.out.bankIndex = MaxBanks - 1
    /\ res.out.index = 1

\* C11: the bankable matcher of a single address matches a message iff the
\* two fields of its address that the bank type does not select equal the
\* base's and the difference diff of the selected fields is not negative, is
\* less than BankSize x tracksPerBank and is a multiple of tracksPerBank; the
\* bank index of a match is diff / tracksPerBank.  With 4 tracks per bank, 2
\* banks and base address 3, exactly the addresses 3 (bank 0) and 7 (bank 1)
\* match.
C11_BankMembership ==
    (res.matcher = "BankableTwoByte" /\ mt.address.valid) =>
        LET type == mt.config.type
            nt == mt.config.bank.tracksPerBank
            size == mt.config.bank.size
            base == mt.address
            sameAddress == res.m.data1 = base.address
            sameChannel == res.m.channel = base.channel
            sameCable == res.m.cable = base.cableNumber
            diff == CASE type = "CHANGE_ADDRESS" -> res.m.data1 - base.address
                      [] type = "CHANGE_CHANNEL" -> res.m.channel - base.channel
                      [] type = "CHANGE_CABLENB" -> res.m.cable - base.cableNumber
            others == CASE type = "CHANGE_ADDRESS" -> sameChannel /\ sameCable
                        [] type = "CHANGE_CHANNEL" -> sameAddress /\ sameCable
                        [] type = "CHANGE_CABLENB" -> sameAddress /\ sameChannel
            member == others /\ diff >= 0 /\ diff < size * nt /\ diff % nt = 0
        IN  /\ res.out.match <=> member
            /\ res.out.match => res.out.bankIndex = diff \div nt
            /\ (/\ type = "CHANGE_ADDRESS" /\ nt = 4 /\ size = 2
                /\ base.address = 3 /\ sameChannel /\ sameCable)
                    => /\ res.out.match <=> res.m.data1 \in {3, 7}
                       /\ res.m.data1 = 3 => res.out.bankIndex = 0
                       /\ res.m.data1 = 7 => res.out.bankIndex = 1

\* address 7 has matched as bank 1 of base address 3, 4 tracks per bank
C11_Witness ==
    /\ res.matcher = "BankableTwoByte"
    /\ mt.config = BankConfig(Bank(2, 4), "CHANGE_ADDRESS")
    /\ mt.address.valid /\ mt.address.address = 3
    /\ res.m.data1 = 7
    /\ res.out.match /\ res.out.bankIndex = 1

\* C13: the bankable range matcher matches, for CHANGE_ADDRESS, iff channel
\* and cable equal the base's and diff = number - base.number is not
\* negative, less than BankSize x tracksPerBank, and diff mod tracksPerBank
\* is less than length; for CHANGE_CHANNEL (CHANGE_CABLENB) iff
\* base.number <= number < base.number + length, the cable (channel) is
\* equal and the channel (cable) passes the bank test of a single address.
\* With 4 tracks per bank, 2 banks, base 3, length 2: 3 and 4 match bank 0
\* with range indices 0 and 1, 7 and 8 match bank 1, 5 and 6 do not match.
C13_RangeMembership ==
    (res.matcher = "BankableTwoByteRange" /\ mt.address.valid) =>
        LET type == mt.config.type
            nt == mt.config.bank.tracksPerBank
            size == mt.config.bank.size
            base == mt.address
            number == res.m.data1
            sameChannel == res.m.channel = base.channel
            sameCable == res.m.cable = base.cableNumber
            within == base.address <= number /\ number < base.address + mt.length
            bankTest(d) == d >= 0 /\ d < size * nt /\ d % nt = 0
            diff == number - base.address
            member ==
                CASE type = "CHANGE_ADDRESS" ->
                        /\ sameChannel /\ sameCable
                        /\ diff >= 0 /\ diff < size * nt /\ diff % nt < mt.length
                  [] type = "CHANGE_CHANNEL" ->
                        within /\ sameCable /\ bankTest(res.m.channel - base.channel)
                  [] type = "CHANGE_CABLENB" ->
                        within /\ sameChannel /\ bankTest(res.m.cable - base.cableNumber)
        IN  /\ res.out.match <=> member
            /\ (/\ type = "CHANGE_ADDRESS" /\ nt = 4 /\ size = 2 /\ mt.length = 2
                /\ base.address = 3 /\ sameChannel /\ sameCable)
                    => /\ res.out.match <=> number \in {3, 4, 7, 8}
                       /\ number \in {3, 4} => res.out.bankIndex = 0
                       /\ number \in {7, 8} => res.out.bankIndex = 1
                       /\ number \in {3, 7} => res.out.index = 0
                       /\ number \in {4, 8} => res.out.index = 1

\* address 8 has matched as the second address of bank 1 of the range 3, 4
C13_Witness ==
    /\ res.matcher = "BankableTwoByteRange"
    /\ mt.config = BankConfig(Bank(2, 4), "CHANGE_ADDRESS")
    /\ mt.address.valid /\ mt.address.address = 3 /\ mt.length = 2
    /\ res.m.data1 = 8
    /\ res.out.match /\ res.out.bankIndex = 1 /\ res.out.index = 1

\* C14: on every match of the bankable range matcher the range index is
\* (number - base.number) mod tracksPerBank for CHANGE_ADDRESS and the
\* difference number - base.number itself for CHANGE_CHANNEL and
\* CHANGE_CABLENB, and it is less than length
C14_RangeIndex ==
    (res.matcher = "BankableTwoByteRange" /\ res.out.match) =>
        LET diff == res.m.data1 - mt.address.address IN
        /\ res.out.index =
              IF mt.config.type = "CHANGE_ADDRESS"
                  THEN diff % mt.config.bank.tracksPerBank
                  ELSE diff
        /\ res.out.index < mt.length

\* a match in the last bank whose range index is not the difference of the
\* addresses, and a range that does not fill the bank
C14_Witness ==
    /\ res.matcher = "BankableTwoByteRange"
    /\ res.out.match
    /\ mt.config.type = "CHANGE_ADDRESS"
    /\ mt.length < mt.config.bank.tracksPerBank
    /\ res.out.bankIndex = mt.config.bank.size - 1
    /\ res.out.index = mt.length - 1
    /\ res.out.index > 0
    /\ res.m.data1 - mt.address.address > res.out.index

\* C18: on every match of the four matchers of messages with two data bytes
\* the value is 0 if the message is a NOTE_OFF and data2 otherwise
C18_NoteOffNormalized ==
    (/\ res.matcher \in {"TwoByte", "TwoByteRange", "BankableTwoByte",
                         "BankableTwoByteRange"}
     /\ res.out.match)
        => res.out.value = IF res.m.type = "NOTE_OFF" THEN 0 ELSE res.m.data2

\* a NOTE_OFF with a velocity has matched the second address of a range
C18_Witness ==
    /\ res.matcher = "TwoByteRange"
    /\ res.out.match
    /\ res.m.type = "NOTE_OFF" /\ res.m.data2 > 0
    /\ res.out.index = 1
    /\ res.out.value = 0

\* C20: a bankable matcher whose base address is the invalid address reports
\* no match and zero in every other field of its result, and
\* matchBankable() and matchBankableAddressInRange() are false whenever the
\* address to match or the base address is invalid
C20_InvalidFailsClosed ==
    /\ (/\ res.matcher \in {"BankableTwoByte", "BankableTwoByteRange", "BankableVU"}
        /\ ~mt.address.valid)
            => /\ ~res.out.match
               /\ \A f \in DOMAIN res.out \ {"match"} : res.out[f] = 0
    /\ (/\ res.matcher \in {"matchBankable", "matchBankableAddressInRange"}
        /\ (~res.m.valid \/ ~mt.address.valid))
            => ~res.out.match

\* a message whose fields equal those of the invalid base address was not
\* matched
C20_Witness ==
    /\ res.matcher = "BankableTwoByte"
    /\ ~mt.address.valid
    /\ res.m.data1 = mt.address.address
    /\ res.m.channel = mt.address.channel
    /\ res.m.cable = mt.address.cableNumber
    /\ ~res.out.match

\* C12 as stated: whenever the field to match is smaller than the base
\* field, the 8-bit difference toMatch - base is not less than
\* BankSize x tracksPerBank
C12_WrapFailsBound ==
    (/\ res.matcher \in {"matchBankableField", "matchBankableInRange"}
     /\ res.m.toMatch < res.m.base)
        => ~(U8(res.m.toMatch - res.m.base)
                < mt.config.bank.size * mt.config.bank.tracksPerBank)

\* C12, amended: a field to match that is smaller than the base field never
\* matches, whatever the wrapped difference is; the wrapped difference is
\* not less than BankSize x tracksPerBank when that product is at most
\* 256 - (base - toMatch)
C12_BeforeBaseNoMatch ==
    (/\ res.matcher \in {"matchBankableField", "matchBankableInRange"}
     /\ res.m.toMatch < res.m.base)
        => LET product == mt.config.bank.size * mt.config.bank.tracksPerBank IN
           /\ ~res.out.match
           /\ product <= 256 - (res.m.base - res.m.toMatch)
                => ~(U8(res.m.toMatch - res.m.base) < product)

\* 0 was not matched against base 127 although the wrapped difference 129 is
\* within the 2 banks of 128 tracks and within the range
C12_Witness ==
    /\ res.matcher = "matchBankableInRange"
    /\ res.m.toMatch = 0 /\ res.m.base = 127
    /\ mt.config.bank = Bank(2, 128)
    /\ U8(res.m.toMatch - res.m.base) < 2 * 128
    /\ U8(res.m.toMatch - res.m.base) % 128 < mt.length
    /\ ~res.out.match

\* C22: for the same toMatch, base and bank, matchBankable(toMatch, base, bank)
\* equals matchBankableInRange(toMatch, base, 1)
C22_SingleIsRangeOfOne ==
    res.matcher = "matchBankableBoth" => res.out.match = res.out.inRange

\* both have matched the start of the last bank, in banks of more than one
\* track
C22_Witness ==
    /\ res.matcher = "matchBankableBoth"
    /\ mt.config.bank.tracksPerBank > 1
    /\ mt.config.bank.size > 1
    /\ res.m.toMatch - res.m.base
          = (mt.config.bank.size - 1) * mt.config.bank.tracksPerBank
    /\ res.out.match /\ res.out.inRange

\* C23: for the bankable range matcher with CHANGE_ADDRESS and
\* length <= tracksPerBank, the address base + b x tracksPerBank + i of every
\* bank b < BankSize and index i < length, on the base's channel and cable,
\* matches with bankIndex = b and range index = i; and every address that
\* matches is base + bankIndex x tracksPerBank + index, so two different
\* addresses never give the same pair
C23_RangeRoundTrip ==
    (/\ res.matcher = "BankableTwoByteRange"
     /\ mt.config.type = "CHANGE_ADDRESS"
     /\ mt.address.valid
     /\ mt.length <= mt.config.bank.tracksPerBank) =>
        LET nt == mt.config.bank.tracksPerBank
            base == mt.address.address
        IN  /\ \A b \in 0..(mt.config.bank.size - 1), i \in 0..(mt.length - 1) :
                  (/\ res.m.data1 = base + b * nt + i
                   /\ res.m.channel = mt.address.channel
                   /\ res.m.cable = mt.address.cableNumber)
                      => /\ res.out.match
                         /\ res.out.bankIndex = b
                         /\ res.out.index = i
            /\ res.out.match
                  => res.m.data1 = base + res.out.bankIndex * nt + res.out.index

\* the last address of a range that fills its bank has matched in the last
\* bank, above a base address that is not 0
C23_Witness ==
    /\ res.matcher = "BankableTwoByteRange"
    /\ mt.config.type = "CHANGE_ADDRESS"
    /\ mt.address.valid /\ mt.address.address > 0
    /\ mt.length = mt.config.bank.tracksPerBank /\ mt.length > 1
    /\ mt.config.bank.size > 1
    /\ res.out.match
    /\ res.out.bankIndex = mt.config.bank.size - 1
    /\ res.out.index = mt.length - 1

----------------------------------------------------------------------------
(* Properties of VUState::update *)

\* C15: update() with a nibble 0x0..0xC sets value to the nibble, returns
\* ValueChanged iff the nibble differs from the value before and
\* NothingChanged otherwise, and leaves overload as it was
C15_UpdateValue ==
    (res.matcher = "update" /\ res.m.data \in 0..12) =>
        /\ vu.state.value = res.m.data
        /\ res.out.changed =
              IF res.m.data # res.m.before.value THEN ValueChanged
                                                 ELSE NothingChanged
        /\ vu.state.overload = res.m.before.overload

\* update(0x0) has lowered the value from 12 with the overload flag set
C15_Witness ==
    /\ res.matcher = "update"
    /\ res.m.data = 0
    /\ res.m.before = VUState(12, TRUE)
    /\ vu.state = VUState(0, TRUE)
    /\ res.out.changed = ValueChanged

\* C16: update(0xE) sets overload and update(0xF) clears it, each returns
\* OverloadChanged iff the flag flipped and NothingChanged otherwise, and
\* neither touches value; a second update(0xE) (update(0xF)) right after the
\* first returns NothingChanged and leaves the state as it was
C16_UpdateOverload ==
    /\ [](res.matcher = "update" /\ res.m.data \in {14, 15} =>
            /\ vu.state.overload = (res.m.data = 14)
            /\ res.out.changed =
                  IF vu.state.overload # res.m.before.overload
                      THEN OverloadChanged ELSE NothingChanged
            /\ vu.state.value = res.m.before.value)
    /\ [][(/\ res.matcher = "update" /\ res'.matcher = "update"
            /\ res.m.data \in {14, 15}
            /\ res'.m.data = res.m.data)
               => /\ res'.out.changed = NothingChanged
                  /\ vu'.state = vu.state]_vars

\* update(0xE) was called with the overload flag set and the value 7
C16_Witness ==
    /\ res.matcher = "update"
    /\ res.m.data = 14
    /\ res.m.before = VUState(7, TRUE)
    /\ vu.state = VUState(7, TRUE)
    /\ res.out.changed = NothingChanged

\* C17: a call of update() changes at most one of value and overload; it
\* returns ValueChanged iff value changed, OverloadChanged iff overload
\* changed, NothingChanged iff the state is as before; update(0xD) returns
\* NothingChanged and leaves the state as before
C17_ChangedFaithful ==
    res.matcher = "update" =>
        LET valueChanged == vu.state.value # res.m.before.value
            overloadChanged == vu.state.overload # res.m.before.overload
        IN  /\ ~(valueChanged /\ overloadChanged)
            /\ res.out.changed = ValueChanged <=> valueChanged
            /\ res.out.changed = OverloadChanged <=> overloadChanged
            /\ res.out.changed = NothingChanged <=> vu.state = res.m.before
            /\ res.m.data = 13 =>
                  /\ res.out.changed = NothingChanged
                  /\ vu.state = res.m.before

\* update(0xD) was called on the value 12 without overload
C17_Witness ==
    /\ res.matcher = "update"
    /\ res.m.data = 13
    /\ res.m.before = VUState(12, FALSE)
    /\ vu.state = VUState(12, FALSE)
    /\ res.out.changed = NothingChanged

----------------------------------------------------------------------------
(* Properties of the matchers of the VU meters *)

\* C19: the matcher of a VU meter of track t in 1..8 matches a channel
\* pressure message with data byte 0hhh llll iff hhh = t - 1 and channel and
\* cable equal the configured ones, and its data is then llll, in 0..15; the
\* bankable matcher applies the rule of the banks to the address
\* {hhh, channel, cable} and returns llll with the bank index
C19_VUDecoding ==
    LET hhh == res.m.data1 \div 16
        llll == res.m.data1 % 16
        base == [address |-> mt.track - 1, channel |-> mt.address.channel,
                 cableNumber |-> mt.address.cableNumber]
        sameAddress == hhh = base.address
        sameChannel == res.m.channel = base.channel
        sameCable == res.m.cable = base.cableNumber
        type == mt.config.type
        nt == mt.config.bank.tracksPerBank
        size == mt.config.bank.size
        diff == CASE type = "CHANGE_ADDRESS" -> hhh - base.address
                  [] type = "CHANGE_CHANNEL" -> res.m.channel - base.channel
                  [] type = "CHANGE_CABLENB" -> res.m.cable - base.cableNumber
        others == CASE type = "CHANGE_ADDRESS" -> sameChannel /\ sameCable
                    [] type = "CHANGE_CHANNEL" -> sameAddress /\ sameCable
                    [] type = "CHANGE_CABLENB" -> sameAddress /\ sameChannel
        member == others /\ diff >= 0 /\ diff < size * nt /\ diff % nt = 0
    IN  /\ (sketch = "VUMatcher" /\ res.matcher = "VU") =>
              /\ res.out.match <=> (sameAddress /\ sameChannel /\ sameCable)
              /\ res.out.match => res.out.data = llll
              /\ res.out.data \in 0..15
        /\ (sketch = "BankableVUMatcher" /\ res.matcher = "BankableVU") =>
              /\ res.out.match <=> member
              /\ res.out.match => /\ res.out.data = llll
                                  /\ res.out.bankIndex = diff \div nt
              /\ res.out.data \in 0..15

\* the meter of track 8 has matched the data byte 0111 1111
C19_Witness ==
    /\ sketch = "VUMatcher" /\ res.matcher = "VU"
    /\ mt.track = 8
    /\ res.m.data1 = 127
    /\ res.out.match /\ res.out.data = 15

====
